---- MODULE Spec2Model ----
(***************************************************************************)
(* State-machine model of the SPass vault session: the IPC handlers of the *)
(* main process (src/main/index.ts), the EncryptionManager                 *)
(* (utils/encryption), the in-memory SQLite working store (MemoryDatabase, *)
(* PasswordsTable, FaviconsTable) and the encrypted vault file on disk.    *)
(*                                                                         *)
(* A handler is split at the awaits where another handler can run: the     *)
(* save-then-purge handlers (lock-application, logout-user, the auto-lock  *)
(* timer callback) and validate-user are step machines; a CRUD handler     *)
(* issues its single SQL statement in the same turn as its locked check,   *)
(* so it is one step.  The working store follows the table layer           *)
(* (PasswordsTable, FaviconsTable) whose DDL MemoryDatabase.init creates.  *)
(***************************************************************************)
EXTENDS Integers, FiniteSets, Sequences, TLC

\* ------------------------------------------------------------------ bounds
MaxId == 1          \* largest AUTOINCREMENT id the model lets add-password assign
MaxTime == 1        \* largest value of the clock behind CURRENT_TIMESTAMP
MaxFavId == 1       \* largest AUTOINCREMENT id of the favicons table

\* --------------------------------------------------------------- constants
NULL == "NULL"              \* SQL NULL / JS null
NoKey == [pw |-> "", salt |-> ""]     \* masterKey === null
NoSalt == "NoSalt"                    \* the salt file does not exist
\* the columns of the passwords table: PasswordsTable.getDDL, and the tables of
\* the two older formats (before the per-entry favicon, before the favorites flag)
Columns == {"id", "service", "username", "password", "url", "group", "notes", "strength",
            "is_favorited", "favicon", "created_at", "updated_at"}
ColumnsNoFavicon == Columns \ {"favicon"}
ColumnsNoFavorite == Columns \ {"favicon", "is_favorited"}

\* Buffer.from(''): a zero-length buffer (an exported database never is one)
EmptyBuffer == [empty |-> TRUE, columns |-> Columns, passwords |-> {}, favicons |-> {}]
\* the path does not exist on disk
NoFile == [state |-> "absent", key |-> NoKey, data |-> EmptyBuffer]

Usernames == {"alice", "mallory"}     \* "mallory" is not registered
Passwords == {"good", "bad"}
SaltValues == {"s1", "s2"}            \* crypto.randomBytes(saltLength)

\* the user-record store: username -> id and the password the user registered with
Registered == {"alice", "bob"}
userIdOf(u) == IF u = "alice" THEN "1" ELSE "2"
passwordOf(u) == IF u = "alice" THEN "good" ELSE "hunter2"
\* the username and password of each registered account
Logins == {<<u, passwordOf(u)>> : u \in Registered}

\* argon2.hash: a PHC string "$argon2id$..." that binds the password
hashPassword(password) == [form |-> "argon2", pw |-> password]
\* what a master_password_hash TEXT NOT NULL column can hold: a hash, text that
\* is no PHC string, the empty string
Hashes == {hashPassword(pw) : pw \in {"good"}} \cup
          {[form |-> f, pw |-> ""] : f \in {"garbage", "empty"}}

DefaultPath == "passwords.db.encrypted"
Paths == {DefaultPath, "passwords_1.db.encrypted", "passwords_2.db.encrypted"}

\* passwordData objects the renderer sends with add-password / update-password;
\* "" stands for a missing or empty (falsy) property
PasswordInputs ==
  { [service |-> "mail", username |-> "al", password |-> "p@ss", url |-> "http://m",
     group |-> "work", notes |-> "n", strength |-> "strong", favicon |-> "ico",
     isFavorited |-> FALSE],
    [service |-> "bank", username |-> "al", password |-> "pw2", url |-> "",
     group |-> "", notes |-> "", strength |-> "", favicon |-> "",
     isFavorited |-> TRUE] }

Ids == 1..(MaxId + 1)
FaviconUrls == {"http://m"}
FaviconData == {"d1"}

VARIABLES
  masterKey,        \* EncryptionManager.masterKey
  encryptedDbPath,  \* EncryptionManager.encryptedDbPath
  saltFile,         \* the file userData/salt
  memoryDb,         \* the db of the current MemoryDatabase object (open = FALSE: db === null)
  files,            \* the vault files on disk, by path
  autoLockTimeout,  \* "null", "pending" (timer armed) or "fired" (stale handle)
  slot,             \* the save-then-purge handlers in flight
  vu,               \* the validate-user handlers in flight
  tg,               \* the toggle-favorite handlers between their SELECT and their UPDATE
  timerSetAt,       \* the clock when setTimeout was last called for the auto-lock
  now,              \* the clock
  reply,            \* what the last completed request returned
  result,           \* the payload the step just taken returned, if any
  users,            \* the users table of the user database: username -> master_password_hash
  log,              \* what console.error recorded
  issued,           \* history: the ids add-password has returned for the vault
  reused,           \* history: add-password returned an id it had returned before
  hist              \* history: the store a completed save-then-purge discarded

vars == <<masterKey, encryptedDbPath, saltFile, memoryDb, files, autoLockTimeout,
          slot, vu, tg, timerSetAt, now, reply, result, users, log, issued, reused, hist>>

\* ------------------------------------------------------- pure JS/SQL helpers
\* x || dflt
OrElse(x, dflt) == IF x = "" THEN dflt ELSE x

Max(S) == CHOOSE m \in S : \A x \in S : x <= m

\* ------------------------------------------------------------ Field Cipher
deriveKey(masterPassword, salt) == [pw |-> masterPassword, salt |-> salt]

\* JS strings the cipher is given: "" is the empty string, LoneSurrogate the
\* one-unit string "\uD800", Replacement the string "\uFFFD"; undefined is
\* the value of a property the caller did not send
LoneSurrogate == "<D800>"
Replacement == "<FFFD>"
undefined == "<undefined>"
Plaintexts == {"p@ss", "", LoneSurrogate}

\* cipher.update(plaintext, 'utf8', ...): the string is encoded as UTF-8, which
\* writes U+FFFD for a surrogate that has no partner
utf8Encode(str) == IF str = LoneSurrogate THEN Replacement ELSE str
\* decipher.update(..., 'utf8'): the bytes are decoded back to a string
utf8Decode(bytes) == bytes

IVs == {"iv1"}                        \* crypto.randomBytes(ivLength)

\* cipher.update throws a TypeError on a plaintext that is not a string
encryptPasswordThrows(plaintext, key) == key = NoKey \/ plaintext = undefined

encryptPassword(plaintext, key) ==
  [encrypted |-> <<utf8Encode(plaintext), key>>,
   iv |-> CHOOSE iv \in IVs : TRUE,
   authTag |-> key]

\* decryptPassword without decipher.setAuthTag: the tag is not verified
decryptPassword_NoAuthTag(encryptedData, key) == utf8Decode(encryptedData.encrypted[1])

\* decryptPassword that returns what decipher.final('utf8') returns and drops
\* the output of decipher.update
decryptPassword_FinalOnly(encryptedData, key) ==
  IF encryptedData.authTag = key /\ encryptedData.encrypted[2] = key
  THEN ""
  ELSE "AuthError"

\* decipher.final() throws when the tag does not verify
decryptPassword(encryptedData, key) ==
  IF encryptedData.authTag = key /\ encryptedData.encrypted[2] = key
  THEN utf8Decode(encryptedData.encrypted[1])
  ELSE "AuthError"

encryptDatabaseFile(dbData, key) == [state |-> "complete", key |-> key, data |-> dbData]

\* decipher.final() throws unless the blob is whole, untampered and under this key
decryptDatabaseFileThrows(encryptedData, key) ==
  key = NoKey \/ encryptedData.state # "complete" \/ encryptedData.key # key

decryptDatabaseFile(encryptedData, key) == encryptedData.data

\* the catch of loadEncryptedDatabase turns every failure (readFile of a missing
\* file, no master key, authentication failure) into an empty buffer
loadEncryptedDatabase(file, key) ==
  IF file.state = "absent" \/ decryptDatabaseFileThrows(file, key) THEN EmptyBuffer
  ELSE decryptDatabaseFile(file, key)

\* an update-password request that sends the notes and no new password
NotesOnly ==
  [service |-> "mail", username |-> "al", password |-> undefined, url |-> "",
   group |-> "", notes |-> "n2", strength |-> "", favicon |-> "", isFavorited |-> FALSE]
UpdateInputs == PasswordInputs \cup {NotesOnly}

\* ------------------------------------------------------------ working store
\* MemoryDatabase.init(): a fresh :memory: database with both tables
EmptyDb == [open |-> TRUE, passwords |-> {}, seq |-> 0, favicons |-> {}, favSeq |-> 0]
\* new MemoryDatabase(): db === null
ClosedDb == [open |-> FALSE, passwords |-> {}, seq |-> 0, favicons |-> {}, favSeq |-> 0]

RowIds(rows) == {r.id : r \in rows}

\* PasswordsTable.addPassword: the row INSERT builds; AUTOINCREMENT picks the id
NewRow(id, p, t) ==
  [id |-> id, service |-> p.service, username |-> p.username, password |-> p.password,
   url |-> OrElse(p.url, NULL), group |-> OrElse(p.group, "other"),
   notes |-> OrElse(p.notes, NULL), strength |-> OrElse(p.strength, "medium"),
   is_favorited |-> IF p.isFavorited THEN 1 ELSE 0, favicon |-> OrElse(p.favicon, NULL),
   created_at |-> t, updated_at |-> t]

addPassword(db, p, t) ==
  [db EXCEPT !.passwords = @ \cup {NewRow(db.seq + 1, p, t)}, !.seq = @ + 1]

\* an UPDATE whose SET list has no updated_at = CURRENT_TIMESTAMP
UpdatedRow_KeepsUpdatedAt(r, p, t) ==
  [NewRow(r.id, p, t) EXCEPT !.created_at = r.created_at, !.updated_at = r.updated_at]

\* PasswordsTable.updatePassword: every column but id and created_at is rewritten
UpdatedRow(r, p, t) == [NewRow(r.id, p, t) EXCEPT !.created_at = r.created_at]

updatePassword(db, id, p, t) ==
  [db EXCEPT !.passwords = {IF r.id = id THEN UpdatedRow(r, p, t) ELSE r : r \in @}]

\* deletePassword with a WHERE clause that matches no row
deletePassword_NoRow(db, id) == db

\* PasswordsTable.deletePassword: DELETE FROM passwords WHERE id = ?
deletePassword(db, id) == [db EXCEPT !.passwords = {r \in @ : r.id # id}]

\* toggleFavorite that writes 1 whatever the SELECT returned
toggleFavorite_AlwaysOne(db, id, t) ==
  [db EXCEPT !.passwords =
     {IF r.id = id THEN [r EXCEPT !.is_favorited = 1, !.updated_at = t] ELSE r : r \in @}]

\* PasswordsTable.toggleFavorite, for an id the SELECT finds
toggleFavorite(db, id, t) ==
  [db EXCEPT !.passwords =
     {IF r.id = id
      THEN [r EXCEPT !.is_favorited = IF r.is_favorited = 1 THEN 0 ELSE 1, !.updated_at = t]
      ELSE r : r \in @}]

\* the characters of the strings the model stores in service and username
Chars(str) ==
  CASE str = "mail" -> <<"m", "a", "i", "l">>
    [] str = "bank" -> <<"b", "a", "n", "k">>
    [] str = "al" -> <<"a", "l">>
    [] str = "http://m" -> <<"h", "t", "t", "p", ":", "/", "/", "m">>
    [] OTHER -> <<>>

\* search terms the renderer sends
Queries == {<<>>, <<"a">>, <<"M">>, <<"h">>, <<"_">>, <<"k", "%">>}

\* LIKE folds the case of ASCII letters
Fold(c) == CASE c = "M" -> "m" [] c = "A" -> "a" [] OTHER -> c

\* SQLite's LIKE: % matches any run of characters, _ any one character
RECURSIVE Like(_, _)
Like(pattern, text) ==
  IF pattern = <<>> THEN text = <<>>
  ELSE IF Head(pattern) = "%"
       THEN Like(Tail(pattern), text) \/ (text # <<>> /\ Like(pattern, Tail(text)))
       ELSE /\ text # <<>>
            /\ (Head(pattern) = "_" \/ Fold(Head(pattern)) = Fold(Head(text)))
            /\ Like(Tail(pattern), Tail(text))

\* SELECT ... FROM passwords ORDER BY service (the order is not modelled)
getAllPasswords(db) == db.passwords

\* WHERE service LIKE '%term%' OR username LIKE '%term%'
searchPasswords(db, searchTerm) ==
  LET query == <<"%">> \o searchTerm \o <<"%">>
  IN {r \in db.passwords : Like(query, Chars(r.service)) \/ Like(query, Chars(r.username))}

\* FaviconsTable.saveWebsiteFavicon: INSERT OR REPLACE deletes the row with the
\* same url and inserts a new one under the next AUTOINCREMENT id
saveWebsiteFavicon(db, url, data, t) ==
  [db EXCEPT !.favicons = {f \in @ : f.url # url} \cup
                {[id |-> db.favSeq + 1, url |-> url, favicon_data |-> data,
                  created_at |-> t, updated_at |-> t]},
             !.favSeq = @ + 1]

\* -------------------------------------------------------------- Vault Codec
\* exportPasswordsToTempDb: the INSERT names eleven columns; favicon is not one
\* of them, so the temp table's favicon column keeps its default NULL
ExportRow(r) == [r EXCEPT !.favicon = NULL]

exportPasswordsToTempDb(db) == {ExportRow(r) : r \in db.passwords}

exportFaviconsToTempDb(db) == db.favicons

\* exportToBuffer: the bytes of the temp database file
exportToBuffer(db) ==
  [empty |-> FALSE, columns |-> Columns, passwords |-> exportPasswordsToTempDb(db),
   favicons |-> exportFaviconsToTempDb(db)]

\* loadFromBuffer: row.sql.includes('is_favorited') on the temp table's DDL
hasFavoriteColumn(buf) == "is_favorited" \in buf.columns

\* copyPasswordsFromTempDb. With the favorites column in the source it runs
\* INSERT INTO passwords SELECT * FROM temp_db.passwords, which SQLite refuses
\* unless the source has as many columns as the target; without, it names the
\* ten old columns and inserts 0 for is_favorited (favicon takes its default).
\* The statement fails as a whole on a PRIMARY KEY conflict; explicit ids
\* raise the AUTOINCREMENT sequence to the largest id inserted.
copyPasswordsConflict(db, buf) ==
  \/ RowIds(db.passwords) \cap RowIds(buf.passwords) # {}
  \/ hasFavoriteColumn(buf) /\ Cardinality(buf.columns) # Cardinality(Columns)

CopiedRow(r, buf) ==
  IF hasFavoriteColumn(buf) THEN r
  ELSE [c \in Columns |-> IF c = "is_favorited" THEN 0
                           ELSE IF c = "favicon" THEN NULL
                           ELSE r[c]]

copyPasswordsFromTempDb(db, buf) ==
  [db EXCEPT !.passwords = @ \cup {CopiedRow(r, buf) : r \in buf.passwords},
             !.seq = Max({@} \cup RowIds(buf.passwords))]

copyFaviconsConflict(db, buf) ==
  \/ RowIds(db.favicons) \cap RowIds(buf.favicons) # {}
  \/ {f.url : f \in db.favicons} \cap {f.url : f \in buf.favicons} # {}

copyFaviconsFromTempDb(db, buf) ==
  [db EXCEPT !.favicons = @ \cup buf.favicons,
             !.favSeq = Max({@} \cup RowIds(buf.favicons))]

\* loadFromBuffer: init() when the db is not open, then copy passwords, then
\* favicons; a failed copy is logged and the load resolves with what was copied
loadFromBuffer(db0, buf) ==
  LET db == IF db0.open THEN db0 ELSE EmptyDb IN
  IF copyPasswordsConflict(db, buf) THEN db
  ELSE LET db1 == copyPasswordsFromTempDb(db, buf) IN
       IF copyFaviconsConflict(db1, buf) THEN db1
       ELSE copyFaviconsFromTempDb(db1, buf)

\* ------------------------------------------------------------------- state
Procs == {"ui", "timer"}
IdleSlot == [pc |-> "idle", kind |-> "none", buf |-> EmptyBuffer, saved |-> FALSE,
             failed |-> FALSE]
\* two validate-user requests can be in flight at once
Handlers == {"v1", "v2"}
IdleVu == [pc |-> "idle", username |-> "", password |-> ""]
NoVu == [h \in Handlers |-> IdleVu]
\* two toggle-favorite requests can be in flight at once
Togglers == {"t1", "t2"}
IdleTg == [pc |-> "idle", id |-> 0, is_favorited |-> 0]
NoTg == [t \in Togglers |-> IdleTg]
NoReply == "none"
\* the step returned no payload (it returned a status, threw, or is not a request)
NoResult == [kind |-> "none", rows |-> {}, text |-> ""]
NoHist == [phase |-> "none", db |-> ClosedDb]

isUnlocked == masterKey # NoKey

Init ==
  /\ masterKey = NoKey
  /\ encryptedDbPath = DefaultPath
  /\ saltFile = NoSalt
  /\ memoryDb = ClosedDb
  /\ files = [p \in Paths |-> NoFile]
  /\ autoLockTimeout = "null"
  /\ slot = [p \in Procs |-> IdleSlot]
  /\ vu = NoVu
  /\ tg = NoTg
  /\ timerSetAt = 0
  /\ now = 0
  /\ reply = NoReply
  /\ result = NoResult
  /\ users = [u \in Registered |-> hashPassword(passwordOf(u))]
  /\ log = {}
  /\ issued = {}
  /\ reused = FALSE
  /\ hist = NoHist


\* ----------------------------------------------------------------- handlers
\* setupAutoLock(): clearTimeout of the old handle, then a new pending timer
setupAutoLock == "pending"

Volatile == <<masterKey, encryptedDbPath, memoryDb, autoLockTimeout, timerSetAt, slot, vu, tg,
             log>>
Disk == <<saltFile, files, users>>
History == <<issued, reused, hist>>

\* ipcMain.handle('get-passwords')
GetPasswords ==
  /\ autoLockTimeout' = setupAutoLock
  /\ reply' = IF ~isUnlocked THEN "locked"
              ELSE IF ~memoryDb.open THEN "error"
              ELSE "ok"
  /\ result' = IF isUnlocked /\ memoryDb.open
               THEN [NoResult EXCEPT !.kind = "rows", !.rows = getAllPasswords(memoryDb)]
               ELSE NoResult
  /\ UNCHANGED <<masterKey, encryptedDbPath, memoryDb, slot, vu, log, now>>
  /\ UNCHANGED <<Disk, History>>
  /\ timerSetAt' = now
  /\ UNCHANGED tg

\* ipcMain.handle('search-passwords')
SearchPasswords(query) ==
  /\ autoLockTimeout' = setupAutoLock
  /\ reply' = IF ~isUnlocked THEN "locked"
              ELSE IF ~memoryDb.open THEN "error"
              ELSE "ok"
  /\ result' = IF isUnlocked /\ memoryDb.open
               THEN [NoResult EXCEPT !.kind = "rows", !.rows = searchPasswords(memoryDb, query)]
               ELSE NoResult
  /\ UNCHANGED <<masterKey, encryptedDbPath, memoryDb, slot, vu, log, now>>
  /\ UNCHANGED <<Disk, History>>
  /\ timerSetAt' = now
  /\ UNCHANGED tg

\* add-password that hands passwordData to the store as it came
AddPassword_StoresPlaintext(passwordData) ==
  /\ memoryDb.seq < MaxId
  /\ autoLockTimeout' = setupAutoLock
  /\ IF ~isUnlocked
     THEN /\ reply' = "locked"
          /\ UNCHANGED <<memoryDb, issued, reused>>
     ELSE IF encryptPasswordThrows(passwordData.password, masterKey) \/ ~memoryDb.open
     THEN /\ reply' = "error"
          /\ UNCHANGED <<memoryDb, issued, reused>>
     ELSE LET encryptedPasswordData ==
                [passwordData EXCEPT !.password = [plain |-> @]]
              lastID == memoryDb.seq + 1
          IN /\ memoryDb' = addPassword(memoryDb, encryptedPasswordData, now)
             /\ reply' = "ok"
             /\ issued' = issued \cup {lastID}
             /\ reused' = (reused \/ lastID \in issued)
  /\ UNCHANGED <<masterKey, encryptedDbPath, slot, vu, log, now, Disk, hist>>
  /\ result' = NoResult
  /\ timerSetAt' = now
  /\ UNCHANGED tg

\* ipcMain.handle('add-password')
AddPassword(passwordData) ==
  /\ memoryDb.seq < MaxId
  /\ autoLockTimeout' = setupAutoLock
  /\ IF ~isUnlocked
     THEN /\ reply' = "locked"
          /\ UNCHANGED <<memoryDb, issued, reused>>
     ELSE IF encryptPasswordThrows(passwordData.password, masterKey) \/ ~memoryDb.open
     THEN /\ reply' = "error"
          /\ UNCHANGED <<memoryDb, issued, reused>>
     ELSE LET encryptedPasswordData ==
                [passwordData EXCEPT !.password = encryptPassword(@, masterKey)]
              lastID == memoryDb.seq + 1
          IN /\ memoryDb' = addPassword(memoryDb, encryptedPasswordData, now)
             /\ reply' = "ok"
             /\ issued' = issued \cup {lastID}
             /\ reused' = (reused \/ lastID \in issued)
  /\ UNCHANGED <<masterKey, encryptedDbPath, slot, vu, log, now, Disk, hist>>
  /\ result' = NoResult
  /\ timerSetAt' = now
  /\ UNCHANGED tg

\* ipcMain.handle('update-password')
UpdatePassword(id, passwordData) ==
  /\ autoLockTimeout' = setupAutoLock
  /\ IF ~isUnlocked
     THEN /\ reply' = "locked"
          /\ UNCHANGED memoryDb
     ELSE IF encryptPasswordThrows(passwordData.password, masterKey) \/ ~memoryDb.open
     THEN /\ reply' = "error"
          /\ UNCHANGED memoryDb
     ELSE LET encryptedPasswordData ==
                [passwordData EXCEPT !.password = encryptPassword(@, masterKey)]
          IN /\ memoryDb' = updatePassword(memoryDb, id, encryptedPasswordData, now)
             /\ reply' = IF id \in RowIds(memoryDb.passwords)
                         THEN "ok" ELSE "nochange"
  /\ UNCHANGED <<masterKey, encryptedDbPath, slot, vu, log, now, Disk, History>>
  /\ result' = NoResult
  /\ timerSetAt' = now
  /\ UNCHANGED tg

\* delete-password without its locked check: the statement goes to the store
DeletePassword_NoLockedCheck(id) ==
  /\ autoLockTimeout' = setupAutoLock
  /\ IF ~memoryDb.open
     THEN /\ reply' = "error"
          /\ UNCHANGED memoryDb
     ELSE /\ memoryDb' = deletePassword(memoryDb, id)
          /\ reply' = IF id \in RowIds(memoryDb.passwords) THEN "ok" ELSE "nochange"
  /\ UNCHANGED <<masterKey, encryptedDbPath, slot, vu, log, now, Disk, History>>
  /\ result' = NoResult
  /\ timerSetAt' = now
  /\ UNCHANGED tg

\* ipcMain.handle('delete-password')
DeletePassword(id) ==
  /\ autoLockTimeout' = setupAutoLock
  /\ IF ~isUnlocked
     THEN /\ reply' = "locked"
          /\ UNCHANGED memoryDb
     ELSE IF ~memoryDb.open
     THEN /\ reply' = "error"
          /\ UNCHANGED memoryDb
     ELSE /\ memoryDb' = deletePassword(memoryDb, id)
          /\ reply' = IF id \in RowIds(memoryDb.passwords)
                      THEN "ok" ELSE "nochange"
  /\ UNCHANGED <<masterKey, encryptedDbPath, slot, vu, log, now, Disk, History>>
  /\ result' = NoResult
  /\ timerSetAt' = now
  /\ UNCHANGED tg

\* ipcMain.handle('toggle-favorite')
ToggleFavorite(id) ==
  /\ autoLockTimeout' = setupAutoLock
  /\ IF ~isUnlocked
     THEN /\ reply' = "locked"
          /\ UNCHANGED memoryDb
     ELSE IF ~memoryDb.open \/ id \notin RowIds(memoryDb.passwords)
     THEN /\ reply' = "error"
          /\ UNCHANGED memoryDb
     ELSE /\ memoryDb' = toggleFavorite(memoryDb, id, now)
          /\ reply' = "ok"
  /\ UNCHANGED <<masterKey, encryptedDbPath, slot, vu, log, now, Disk, History>>
  /\ result' = NoResult
  /\ timerSetAt' = now
  /\ UNCHANGED tg

\* toggle-favorite up to the first await of PasswordsTable.toggleFavorite:
\* setupAutoLock, the locked check and the SELECT of is_favorited
ToggleSelect(t, id) ==
  /\ tg[t].pc = "idle"
  /\ autoLockTimeout' = setupAutoLock
  /\ timerSetAt' = now
  /\ IF ~isUnlocked
     THEN /\ reply' = "locked"
          /\ UNCHANGED tg
     ELSE IF ~memoryDb.open \/ id \notin RowIds(memoryDb.passwords)
     THEN /\ reply' = "error"
          /\ UNCHANGED tg
     ELSE /\ reply' = NoReply
          /\ \E row \in memoryDb.passwords :
               /\ row.id = id
               /\ tg' = [tg EXCEPT ![t] = [pc |-> "selected", id |-> id,
                                           is_favorited |-> row.is_favorited]]
  /\ UNCHANGED <<masterKey, encryptedDbPath, memoryDb, slot, vu, log, now, Disk, History>>
  /\ result' = NoResult

\* the UPDATE of PasswordsTable.toggleFavorite: newFavoriteStatus is computed
\* from the row the SELECT returned
ToggleUpdate(t) ==
  /\ tg[t].pc = "selected"
  /\ LET newFavoriteStatus == IF tg[t].is_favorited = 1 THEN 0 ELSE 1
     IN memoryDb' = [memoryDb EXCEPT !.passwords =
                       {IF r.id = tg[t].id
                        THEN [r EXCEPT !.is_favorited = newFavoriteStatus, !.updated_at = now]
                        ELSE r : r \in @}]
  /\ tg' = [tg EXCEPT ![t] = IdleTg]
  /\ reply' = "ok"
  /\ UNCHANGED <<masterKey, encryptedDbPath, autoLockTimeout, timerSetAt, slot, vu, log, now,
                 Disk, History>>
  /\ result' = NoResult

\* the Error the catch of decrypt-password throws in place of the cipher's
DecryptFailure == [kind |-> "error", rows |-> {}, text |-> "Failed to decrypt password"]

\* ipcMain.handle('decrypt-password'): the renderer passes an envelope back
DecryptPassword(encryptedData) ==
  /\ reply' = IF ~isUnlocked THEN "locked"
              ELSE IF decryptPassword(encryptedData, masterKey) = "AuthError"
              THEN "error"
              ELSE "ok"
  /\ result' = IF isUnlocked /\ decryptPassword(encryptedData, masterKey) # "AuthError"
               THEN [NoResult EXCEPT !.kind = "text",
                                     !.text = decryptPassword(encryptedData, masterKey)]
               ELSE IF isUnlocked THEN DecryptFailure
               ELSE NoResult
  /\ UNCHANGED <<Volatile, now, Disk, History>>

\* ipcMain.handle('save-website-favicon'): no locked check; a closed db throws
\* inside the try and is logged
SaveWebsiteFavicon(url, faviconData) ==
  /\ memoryDb.open
  /\ memoryDb.favSeq < MaxFavId
  /\ memoryDb' = saveWebsiteFavicon(memoryDb, url, faviconData, now)
  /\ reply' = "ok"
  /\ UNCHANGED <<masterKey, encryptedDbPath, autoLockTimeout, slot, vu, log, now>>
  /\ UNCHANGED <<Disk, History>>
  /\ result' = NoResult
  /\ UNCHANGED <<tg, timerSetAt>>

\* ipcMain.handle('update-auto-lock-time') -> updateAutoLockTime
UpdateAutoLockTime ==
  /\ autoLockTimeout' = IF autoLockTimeout # "null" THEN setupAutoLock ELSE autoLockTimeout
  /\ reply' = "ok"
  /\ UNCHANGED <<masterKey, encryptedDbPath, memoryDb, slot, vu, log, now>>
  /\ UNCHANGED <<Disk, History>>
  /\ result' = NoResult
  /\ timerSetAt' = IF autoLockTimeout # "null" THEN now ELSE timerSetAt
  /\ UNCHANGED tg


\* ------------------------------------------------ save-then-purge handlers
\* saveMemoryDbToEncryptedFile, up to the export: skipped without a master key;
\* exportToBuffer throws on a db that is not open, which the catch logs
StartSave(p, kind) ==
  /\ slot[p].pc = "idle"
  /\ IF ~isUnlocked
     THEN /\ slot' = [slot EXCEPT ![p] = [IdleSlot EXCEPT !.pc = "close", !.kind = kind]]
          /\ UNCHANGED log
     ELSE IF ~memoryDb.open
     THEN /\ slot' = [slot EXCEPT ![p] = [IdleSlot EXCEPT !.pc = "close", !.kind = kind,
                                                          !.failed = TRUE]]
          /\ log' = log \cup {"Failed to save encrypted database"}
     ELSE /\ slot' = [slot EXCEPT ![p] = [IdleSlot EXCEPT !.pc = "exported", !.kind = kind,
                                                          !.buf = exportToBuffer(memoryDb)]]
          /\ UNCHANGED log

\* ipcMain.handle('lock-application')
LockApplication ==
  /\ StartSave("ui", "lock")
  /\ UNCHANGED <<masterKey, encryptedDbPath, memoryDb, autoLockTimeout, vu, now, reply>>
  /\ UNCHANGED <<Disk, History>>
  /\ result' = NoResult
  /\ UNCHANGED <<tg, timerSetAt>>

\* ipcMain.handle('logout-user') -> handleUserLogout
LogoutUser ==
  /\ StartSave("ui", "logout")
  /\ UNCHANGED <<masterKey, encryptedDbPath, memoryDb, autoLockTimeout, vu, now, reply>>
  /\ UNCHANGED <<Disk, History>>
  /\ result' = NoResult
  /\ UNCHANGED <<tg, timerSetAt>>

\* the setTimeout callback of setupAutoLock fires
AutoLockFire ==
  /\ autoLockTimeout = "pending"
  /\ autoLockTimeout' = "fired"
  /\ StartSave("timer", "auto")
  /\ UNCHANGED <<masterKey, encryptedDbPath, memoryDb, vu, now, reply>>
  /\ UNCHANGED <<Disk, History>>
  /\ result' = NoResult
  /\ UNCHANGED <<tg, timerSetAt>>

SaveFailed(p) ==
  /\ slot' = [slot EXCEPT ![p].pc = "close", ![p].failed = TRUE]
  /\ log' = log \cup {"Failed to save encrypted database"}

\* saveEncryptedDatabase: encryptDatabaseFile with the key held now, then
\* fs.writeFile opens the path with flag 'w', which truncates it
SaveEncrypt(p) ==
  /\ slot[p].pc = "exported"
  /\ \/ /\ isUnlocked
        /\ slot' = [slot EXCEPT ![p].pc = "writing"]
        /\ files' = [files EXCEPT ![encryptedDbPath] =
                       [encryptDatabaseFile(slot[p].buf, masterKey) EXCEPT !.state = "partial"]]
        /\ UNCHANGED log
     \/ /\ ~isUnlocked          \* 'Master key not set'
        /\ SaveFailed(p)
        /\ UNCHANGED files
     \/ /\ isUnlocked           \* the open fails
        /\ SaveFailed(p)
        /\ UNCHANGED files
  /\ UNCHANGED <<masterKey, encryptedDbPath, saltFile, users, memoryDb, autoLockTimeout, vu,
                 now, reply, History>>
  /\ result' = NoResult
  /\ UNCHANGED <<tg, timerSetAt>>

\* fs.writeFile completes, or fails with part of the blob written
SaveWritten(p) ==
  /\ slot[p].pc = "writing"
  /\ \/ /\ slot' = [slot EXCEPT ![p].pc = "close", ![p].saved = TRUE]
        /\ files' = [files EXCEPT ![encryptedDbPath] =
                       [@ EXCEPT !.state = IF @ = "partial" THEN "complete" ELSE @]]
        /\ UNCHANGED log
     \/ /\ SaveFailed(p)
        /\ UNCHANGED files
  /\ UNCHANGED <<masterKey, encryptedDbPath, saltFile, users, memoryDb, autoLockTimeout, vu,
                 now, reply, History>>
  /\ result' = NoResult
  /\ UNCHANGED <<tg, timerSetAt>>

\* a lock that gives up when its save failed: it returns false with the key
\* and the store still in place
Purge_AbortsOnFailedSave(p) ==
  /\ slot[p].pc = "close"
  /\ IF slot[p].failed
     THEN /\ reply' = "error"
          /\ UNCHANGED <<memoryDb, masterKey, autoLockTimeout, hist>>
     ELSE /\ memoryDb' = ClosedDb
          /\ masterKey' = NoKey
          /\ autoLockTimeout' = IF slot[p].kind = "auto" THEN autoLockTimeout ELSE "null"
          /\ reply' = "purged"
          /\ hist' = IF slot[p].saved /\ memoryDb.open
                     THEN [phase |-> "locked", db |-> memoryDb] ELSE hist
  /\ slot' = [slot EXCEPT ![p] = IdleSlot]
  /\ UNCHANGED <<encryptedDbPath, vu, log, now, Disk, issued, reused>>
  /\ result' = NoResult
  /\ UNCHANGED <<tg, timerSetAt>>

\* memoryDb.close(); memoryDb = new MemoryDatabase(); clearMasterKey(); and,
\* except in the timer callback, clearTimeout
Purge(p) ==
  /\ slot[p].pc = "close"
  /\ memoryDb' = ClosedDb
  /\ masterKey' = NoKey
  /\ autoLockTimeout' = IF slot[p].kind = "auto" THEN autoLockTimeout ELSE "null"
  /\ slot' = [slot EXCEPT ![p] = IdleSlot]
  /\ reply' = "purged"
  /\ hist' = IF slot[p].saved /\ memoryDb.open
             THEN [phase |-> "locked", db |-> memoryDb] ELSE hist
  /\ UNCHANGED <<encryptedDbPath, vu, log, now, Disk, issued, reused>>
  /\ result' = NoResult
  /\ UNCHANGED <<tg, timerSetAt>>

\* ---------------------------------------------------------- validate-user
\* argon2.verify rejects when the digest is not a PHC string it can parse
argon2VerifyThrows(hash) == hash.form # "argon2"
argon2Verify(hash, password) == hash = hashPassword(password)

\* UsersTable.verifyPassword: the startsWith('$') guard and the catch turn a
\* malformed hash into false
verifyPassword(hash, password) ==
  IF argon2VerifyThrows(hash) THEN FALSE ELSE argon2Verify(hash, password)

\* UserDatabase.validateUser, which validate-user calls: no row -> false;
\* otherwise argon2.verify on the stored hash, and the catch rethrows
validateUserThrows(username) ==
  username \in DOMAIN users /\ argon2VerifyThrows(users[username])

validateUser(username, password) ==
  username \in DOMAIN users /\ argon2Verify(users[username], password)

PathOf(userId) == IF userId = "1" THEN "passwords_1.db.encrypted" ELSE "passwords_2.db.encrypted"

\* validate-user that resets the auto-lock timer first, as the CRUD handlers do
ValidateUser_ArmsTimer(username, password) ==
  /\ vu["v1"].pc = "idle"
  /\ autoLockTimeout' = setupAutoLock
  /\ timerSetAt' = now
  /\ IF validateUserThrows(username)
     THEN /\ reply' = "error"
          /\ UNCHANGED vu
     ELSE IF validateUser(username, password)
     THEN /\ vu' = [vu EXCEPT !["v1"] =
                      [pc |-> "auth", username |-> username, password |-> password]]
          /\ UNCHANGED reply
     ELSE /\ reply' = "invalid"
          /\ UNCHANGED vu
  /\ UNCHANGED <<masterKey, encryptedDbPath, memoryDb, slot, log, now>>
  /\ UNCHANGED <<Disk, History>>
  /\ result' = NoResult
  /\ UNCHANGED tg

\* ipcMain.handle('validate-user'), run by handler h, up to the return of
\* userDb.validateUser: invalid credentials return false and nothing else
\* runs; when it throws, the handler throws
ValidateUserBy(h, username, password) ==
  /\ vu[h].pc = "idle"
  /\ IF validateUserThrows(username)
     THEN /\ reply' = "error"
          /\ UNCHANGED vu
     ELSE IF validateUser(username, password)
     THEN /\ vu' = [vu EXCEPT ![h] =
                      [pc |-> "auth", username |-> username, password |-> password]]
          /\ UNCHANGED reply
     ELSE /\ reply' = "invalid"
          /\ UNCHANGED vu
  /\ UNCHANGED <<masterKey, encryptedDbPath, memoryDb, autoLockTimeout, slot, log, now>>
  /\ UNCHANGED <<Disk, History>>
  /\ result' = NoResult
  /\ UNCHANGED <<tg, timerSetAt>>

\* a validate-user request that arrives while no other one is in flight
ValidateUser(username, password) == ValidateUserBy("v1", username, password)

\* db.get of the user's id has returned: setUserId selects the account's path
SetUserId(h) ==
  /\ vu[h].pc = "auth"
  /\ encryptedDbPath' = PathOf(userIdOf(vu[h].username))
  /\ vu' = [vu EXCEPT ![h].pc = "user"]
  /\ UNCHANGED <<masterKey, memoryDb, autoLockTimeout, slot, log, now, reply>>
  /\ UNCHANGED <<Disk, History>>
  /\ result' = NoResult
  /\ UNCHANGED <<tg, timerSetAt>>

\* crypto.randomBytes(saltLength): a value other than the one on disk
randomBytes(old) == IF old = "s1" THEN "s2" ELSE "s1"

\* setMasterKey: getOrCreateSalt reads the salt file, or creates it when the
\* read throws because there is none, and deriveKey
SetMasterKey(h) ==
  /\ vu[h].pc = "user"
  /\ LET salt == IF saltFile = NoSalt THEN randomBytes(saltFile) ELSE saltFile
     IN /\ saltFile' = salt
        /\ masterKey' = deriveKey(vu[h].password, salt)
  /\ vu' = [vu EXCEPT ![h].pc = "key"]
  /\ UNCHANGED <<encryptedDbPath, memoryDb, files, users, autoLockTimeout, slot, log, now,
                 reply, History>>
  /\ result' = NoResult
  /\ UNCHANGED <<tg, timerSetAt>>

\* setMasterKey when fs.readFile of the salt file throws although the file is
\* there (EACCES, EMFILE, EIO): the catch of getOrCreateSalt writes a new salt
SetMasterKeySaltUnreadable(h) ==
  /\ vu[h].pc = "user"
  /\ saltFile # NoSalt
  /\ LET salt == randomBytes(saltFile)
     IN /\ saltFile' = salt
        /\ masterKey' = deriveKey(vu[h].password, salt)
  /\ vu' = [vu EXCEPT ![h].pc = "key"]
  /\ UNCHANGED <<encryptedDbPath, memoryDb, files, users, autoLockTimeout, slot, log, now,
                 reply, History>>
  /\ result' = NoResult
  /\ UNCHANGED <<tg, timerSetAt>>

\* memoryDb.init(): this.db becomes a fresh database
InitMemoryDb(h) ==
  /\ vu[h].pc = "key"
  /\ memoryDb' = EmptyDb
  /\ vu' = [vu EXCEPT ![h].pc = "init"]
  /\ UNCHANGED <<masterKey, encryptedDbPath, autoLockTimeout, slot, log, now, reply>>
  /\ UNCHANGED <<Disk, History>>
  /\ result' = NoResult
  /\ UNCHANGED <<tg, timerSetAt>>

\* encryptedDatabaseExists, loadEncryptedDatabase, loadFromBuffer, setupAutoLock
LoadVault(h) ==
  /\ vu[h].pc = "init"
  /\ LET file == files[encryptedDbPath]
         exists == file.state # "absent"
         dbBuffer == loadEncryptedDatabase(file, masterKey)
     IN memoryDb' = IF exists /\ ~dbBuffer.empty
                    THEN loadFromBuffer(memoryDb, dbBuffer) ELSE memoryDb
  /\ autoLockTimeout' = setupAutoLock
  /\ timerSetAt' = now
  /\ reply' = "unlocked"
  /\ vu' = [vu EXCEPT ![h] = IdleVu]
  /\ hist' = NoHist
  /\ UNCHANGED <<masterKey, encryptedDbPath, slot, log, now, Disk, issued, reused>>
  /\ result' = NoResult
  /\ UNCHANGED tg

\* -------------------------------------------------------------- environment
Tick ==
  /\ now < MaxTime
  /\ now' = now + 1
  /\ UNCHANGED <<Volatile, reply, Disk, History>>
  /\ result' = NoResult

\* a bit of the ciphertext region of a vault file is flipped
Tamper(path) ==
  /\ files[path].state = "complete"
  /\ files' = [files EXCEPT ![path].state = "tampered"]
  /\ hist' = NoHist
  /\ UNCHANGED <<Volatile, now, reply, saltFile, users, issued, reused>>
  /\ result' = NoResult

\* the process dies and is started again: memory is lost, the disk is kept
Crash ==
  /\ masterKey' = NoKey
  /\ encryptedDbPath' = DefaultPath
  /\ memoryDb' = ClosedDb
  /\ autoLockTimeout' = "null"
  /\ slot' = [p \in Procs |-> IdleSlot]
  /\ vu' = NoVu
  /\ tg' = NoTg
  /\ UNCHANGED timerSetAt
  /\ reply' = NoReply
  /\ log' = {}
  /\ UNCHANGED <<now, Disk, History>>
  /\ result' = NoResult

Envelopes == {encryptPassword(pt, deriveKey(pw, s)) :
                pt \in Plaintexts, pw \in Passwords, s \in SaltValues}

\* the envelopes the renderer passes to decrypt-password in a session: those of
\* a password the form sent, under the key of this or of another session
RevealInputs == {e \in Envelopes : e.encrypted[1] = utf8Encode("p@ss")}

\* load(save(serialize(store), key), key): what exportToBuffer,
\* saveEncryptedDatabase, loadEncryptedDatabase and loadFromBuffer make of the
\* store when a lock is followed by an unlock with the same key
VaultRoundTrip ==
  /\ isUnlocked /\ memoryDb.open
  /\ LET blob == encryptDatabaseFile(exportToBuffer(memoryDb), masterKey)
         dbBuffer == loadEncryptedDatabase(blob, masterKey)
     IN /\ files' = [files EXCEPT ![encryptedDbPath] = blob]
        /\ memoryDb' = IF ~dbBuffer.empty THEN loadFromBuffer(EmptyDb, dbBuffer) ELSE EmptyDb
  /\ reply' = "unlocked"
  /\ UNCHANGED <<masterKey, encryptedDbPath, saltFile, users, autoLockTimeout, slot, vu, log,
                 now, History>>
  /\ result' = NoResult
  /\ UNCHANGED <<tg, timerSetAt>>

\* a vault blob written by an older version: one entry, in a passwords table
\* with the given columns
LegacyColumnSets == {ColumnsNoFavicon, ColumnsNoFavorite}

LegacyBuffer(columns, key) ==
  LET row == NewRow(1, [service |-> "mail", username |-> "al",
                        password |-> encryptPassword("p@ss", key), url |-> "http://m",
                        group |-> "work", notes |-> "n", strength |-> "strong",
                        favicon |-> "", isFavorited |-> FALSE], 0)
  IN [empty |-> FALSE, columns |-> columns,
      passwords |-> {[c \in columns |-> row[c]]}, favicons |-> {}]

\* the first unlock after an upgrade: the vault file holds a blob of an older
\* format under the session key; validate-user decrypts it and loadFromBuffer
\* copies it into the fresh store
LoadLegacyVault(columns) ==
  /\ isUnlocked /\ memoryDb = EmptyDb /\ issued = {}
  /\ files[encryptedDbPath].state = "absent"
  /\ LET blob == encryptDatabaseFile(LegacyBuffer(columns, masterKey), masterKey)
         dbBuffer == loadEncryptedDatabase(blob, masterKey)
     IN /\ files' = [files EXCEPT ![encryptedDbPath] = blob]
        /\ memoryDb' = IF ~dbBuffer.empty THEN loadFromBuffer(memoryDb, dbBuffer) ELSE memoryDb
  /\ reply' = "unlocked"
  /\ result' = NoResult
  /\ UNCHANGED <<masterKey, encryptedDbPath, saltFile, users, autoLockTimeout, slot, vu, log,
                 now, History>>
  /\ UNCHANGED <<tg, timerSetAt>>

\* ------------------------------------------------------------ specifications
\* no save-then-purge handler and no validate-user is between two of its steps
Quiescent == (\A h \in Handlers : vu[h].pc = "idle") /\ \A p \in Procs : slot[p].pc = "idle"

\* Spec: the renderer awaits each request before it sends the next one and the
\* timer does not fire during a request; the disk can fail, a vault file can be
\* tampered with, and a crash can interrupt a handler anywhere.
Next ==
  \/ Quiescent /\ GetPasswords
  \/ Quiescent /\ \E query \in {<<>>} : SearchPasswords(query)
  \/ Quiescent /\ \E passwordData \in PasswordInputs : AddPassword(passwordData)
  \/ Quiescent /\ \E id \in Ids, passwordData \in UpdateInputs : UpdatePassword(id, passwordData)
  \/ Quiescent /\ \E id \in Ids : DeletePassword(id)
  \/ Quiescent /\ \E id \in Ids : ToggleFavorite(id)
  \/ Quiescent /\ \E encryptedData \in RevealInputs : DecryptPassword(encryptedData)
  \/ Quiescent /\ UpdateAutoLockTime
  \/ Quiescent /\ LockApplication
  \/ Quiescent /\ LogoutUser
  \/ Quiescent /\ AutoLockFire
  \/ \E p \in Procs : SaveEncrypt(p)
  \/ \E p \in Procs : SaveWritten(p)
  \/ \E p \in Procs : Purge(p)
  \/ Quiescent /\ \E username \in Usernames, password \in Passwords :
                    ValidateUser(username, password)
  \/ \E h \in Handlers : SetUserId(h)
  \/ \E h \in Handlers : SetMasterKey(h)
  \/ \E h \in Handlers : InitMemoryDb(h)
  \/ \E h \in Handlers : LoadVault(h)
  \/ Quiescent /\ \E path \in Paths : Tamper(path)
  \/ Crash

Spec == Init /\ [][Next]_vars

\* AuthSpec: Spec started from a user database whose master_password_hash
\* column holds any of the values a TEXT column can hold
AuthInit ==
  /\ masterKey = NoKey
  /\ encryptedDbPath = DefaultPath
  /\ saltFile = NoSalt
  /\ memoryDb = ClosedDb
  /\ files = [p \in Paths |-> NoFile]
  /\ autoLockTimeout = "null"
  /\ slot = [p \in Procs |-> IdleSlot]
  /\ vu = NoVu
  /\ tg = NoTg
  /\ timerSetAt = 0
  /\ now = 0
  /\ reply = NoReply
  /\ result = NoResult
  /\ users \in [Registered -> Hashes]
  /\ log = {}
  /\ issued = {}
  /\ reused = FALSE
  /\ hist = NoHist

AuthSpec == AuthInit /\ [][Next]_vars

\* ConcSpec: requests, the timer and the steps of the handlers in flight
\* interleave freely (every await is a point where another handler runs).
ConcInputs == {p \in PasswordInputs : p.favicon # ""}

ConcNext ==
  \/ \E passwordData \in ConcInputs : AddPassword(passwordData)
  \/ \E id \in Ids : DeletePassword(id)
  \/ LockApplication
  \/ LogoutUser
  \/ AutoLockFire
  \/ \E p \in Procs : SaveEncrypt(p)
  \/ \E p \in Procs : SaveWritten(p)
  \/ \E p \in Procs : Purge(p)
  \/ \E username \in Usernames, password \in Passwords : ValidateUser(username, password)
  \/ \E h \in Handlers : SetUserId(h)
  \/ \E h \in Handlers : SetMasterKey(h)
  \/ \E h \in Handlers : InitMemoryDb(h)
  \/ \E h \in Handlers : LoadVault(h)

ConcSpec == Init /\ [][ConcNext]_vars

\* CodecSpec: the working store of an unlocked session (the state validate-user
\* leaves on the first run) under every store operation, with the clock
\* running, and the vault round trip applied to it.
CodecInit ==
  /\ masterKey = deriveKey("good", "s1")
  /\ encryptedDbPath = PathOf("1")
  /\ saltFile = "s1"
  /\ memoryDb = EmptyDb
  /\ files = [p \in Paths |-> NoFile]
  /\ autoLockTimeout = "pending"
  /\ slot = [p \in Procs |-> IdleSlot]
  /\ vu = NoVu
  /\ tg = NoTg
  /\ timerSetAt = 0
  /\ now = 0
  /\ reply = "unlocked"
  /\ result = NoResult
  /\ users = [u \in Registered |-> hashPassword(passwordOf(u))]
  /\ log = {}
  /\ issued = {}
  /\ reused = FALSE
  /\ hist = NoHist

CodecNext ==
  \/ \E passwordData \in PasswordInputs : AddPassword(passwordData)
  \/ \E id \in Ids, passwordData \in UpdateInputs : UpdatePassword(id, passwordData)
  \/ \E id \in Ids : DeletePassword(id)
  \/ \E id \in Ids : ToggleFavorite(id)
  \/ \E url \in FaviconUrls, faviconData \in FaviconData : SaveWebsiteFavicon(url, faviconData)
  \/ Tick
  \/ VaultRoundTrip
  \/ \E columns \in LegacyColumnSets : LoadLegacyVault(columns)
  \/ GetPasswords
  \/ \E query \in Queries : SearchPasswords(query)
  \/ \E encryptedData \in Envelopes : DecryptPassword(encryptedData)

CodecSpec == CodecInit /\ [][CodecNext]_vars

\* the requests on single entries, on their own: an unlocked session that adds,
\* updates, deletes, marks, lists and reveals entries while the clock advances
EntryNext ==
  \/ \E passwordData \in PasswordInputs : AddPassword(passwordData)
  \/ \E id \in Ids, passwordData \in UpdateInputs : UpdatePassword(id, passwordData)
  \/ \E id \in Ids : DeletePassword(id)
  \/ \E id \in Ids : ToggleFavorite(id)
  \/ Tick
  \/ GetPasswords
  \/ \E encryptedData \in Envelopes : DecryptPassword(encryptedData)

EntrySpec == CodecInit /\ [][EntryNext]_vars

\* two registered accounts; the first has locked a session that held one
\* entry, so its vault is on disk under its key, and the salt file exists
AccountsInit ==
  /\ masterKey = NoKey
  /\ encryptedDbPath = DefaultPath
  /\ saltFile = "s1"
  /\ memoryDb = ClosedDb
  /\ files = [p \in Paths |->
                IF p = PathOf("1")
                THEN encryptDatabaseFile(
                       exportToBuffer(addPassword(EmptyDb,
                         [service |-> "mail", username |-> "al",
                          password |-> encryptPassword("p@ss", deriveKey("good", "s1")),
                          url |-> "http://m", group |-> "work", notes |-> "n",
                          strength |-> "strong", favicon |-> "ico", isFavorited |-> FALSE],
                         0)),
                       deriveKey("good", "s1"))
                ELSE NoFile]
  /\ autoLockTimeout = "null"
  /\ slot = [p \in Procs |-> IdleSlot]
  /\ vu = NoVu
  /\ tg = NoTg
  /\ timerSetAt = 0
  /\ now = 0
  /\ reply = NoReply
  /\ result = NoResult
  /\ users = [u \in Registered |-> hashPassword(passwordOf(u))]
  /\ log = {}
  /\ issued = {1}
  /\ reused = FALSE
  /\ hist = NoHist

\* unlock requests of the two accounts, the second of which arrives while the
\* first is in flight, interleaved at their awaits
OverlapNext ==
  \/ \E login \in Logins :
       /\ \A h \in Handlers : vu[h].pc = "idle"
       /\ ValidateUserBy("v1", login[1], login[2])
  \/ \E login \in Logins :
       /\ vu["v1"].pc # "idle"
       /\ ValidateUserBy("v2", login[1], login[2])
  \/ \E h \in Handlers : SetUserId(h)
  \/ \E h \in Handlers : SetMasterKey(h)
  \/ \E h \in Handlers : InitMemoryDb(h)
  \/ \E h \in Handlers : LoadVault(h)

OverlapSpec == AccountsInit /\ [][OverlapNext]_vars

\* unlock requests of the two accounts, one at a time, with no lock between
\* them, interleaved at their awaits with the auto-lock callback
IsolationNext ==
  \/ \E login \in Logins :
       /\ vu["v1"].pc = "idle"
       /\ ValidateUserBy("v1", login[1], login[2])
  \/ SetUserId("v1")
  \/ SetMasterKey("v1")
  \/ InitMemoryDb("v1")
  \/ LoadVault("v1")
  \/ AutoLockFire
  \/ SaveEncrypt("timer")
  \/ SaveWritten("timer")
  \/ Purge("timer")

IsolationSpec == AccountsInit /\ [][IsolationNext]_vars

\* unlock, add, lock and unlock again, where fs.readFile of the salt file may
\* throw during an unlock
SaltNext ==
  \/ \E login \in Logins :
       /\ Quiescent
       /\ ValidateUserBy("v1", login[1], login[2])
  \/ SetUserId("v1")
  \/ SetMasterKey("v1")
  \/ SetMasterKeySaltUnreadable("v1")
  \/ InitMemoryDb("v1")
  \/ LoadVault("v1")
  \/ Quiescent /\ \E passwordData \in PasswordInputs : AddPassword(passwordData)
  \/ Quiescent /\ LockApplication
  \/ SaveEncrypt("ui")
  \/ SaveWritten("ui")
  \/ Purge("ui")

SaltSpec == Init /\ [][SaltNext]_vars

\* toggle-favorite requests whose SELECT and UPDATE interleave, in an unlocked
\* session that adds entries while the clock advances
ToggleNext ==
  \/ \E passwordData \in PasswordInputs : AddPassword(passwordData)
  \/ \E t \in Togglers, id \in Ids : ToggleSelect(t, id)
  \/ \E t \in Togglers : ToggleUpdate(t)
  \/ Tick

ToggleSpec == CodecInit /\ [][ToggleNext]_vars

\* ------------------------------------------------------------------ claims
UserPath == PathOf("1")
SaveFailureLine == "Failed to save encrypted database"

\* the requests of the CredStore surface
CredStoreRequest ==
  \/ GetPasswords
  \/ \E query \in Queries : SearchPasswords(query)
  \/ \E passwordData \in PasswordInputs : AddPassword(passwordData)
  \/ \E id \in Ids, passwordData \in UpdateInputs : UpdatePassword(id, passwordData)
  \/ \E id \in Ids : DeletePassword(id)
  \/ \E id \in Ids : ToggleFavorite(id)
  \/ \E encryptedData \in Envelopes : DecryptPassword(encryptedData)

\* the entries as the user sees them: each secret decrypted with the key
View(db, key) ==
  {[r EXCEPT !.password = decryptPassword(r.password, key)] : r \in db.passwords}

\* C1: while no master key is held, get_all, add, update, delete, search,
\* toggle_favorite and decrypt_secret each fail with the locked error and leave
\* the working store, the master key and the vault files as they were.
C1_LockedRequestsChangeNothing ==
  [][(~isUnlocked /\ CredStoreRequest)
       => (reply' = "locked" /\ UNCHANGED <<memoryDb, masterKey, files>>)]_vars

\* a request was rejected as locked after a session had been locked with its
\* vault written
C1_Witness ==
  /\ reply = "locked"
  /\ ~isUnlocked
  /\ hist.phase = "locked"
  /\ files[UserPath].state = "complete"

\* C2 (as claimed): after lock() and unlock() with the correct password the
\* visible entries (ids, every field, decrypted secrets) are those held just
\* before the lock, and between the two every list and reveal request fails
\* with the locked error.
C2_LockUnlockRestoresEntries ==
  [][/\ (hist.phase = "locked" /\ (\E h \in Handlers : vu[h].pc = "init")
            /\ reply' = "unlocked")
          => View(memoryDb', masterKey') = View(hist.db, masterKey')
     /\ (hist.phase = "locked" /\ ~isUnlocked
           /\ (GetPasswords \/ \E e \in Envelopes : DecryptPassword(e)))
          => reply' = "locked"]_vars

\* C3 (as claimed): an unlock that finds a vault blob which exists but does not
\* authenticate (tampered, cut short, or under another key) reports an error
\* and does not complete as unlocked.
C3_UnauthenticVaultFailsUnlock ==
  [][(/\ \E h \in Handlers : vu[h].pc = "init" /\ vu'[h].pc = "idle"
      /\ reply' # NoReply
      /\ files[encryptedDbPath].state # "absent"
      /\ decryptDatabaseFileThrows(files[encryptedDbPath], masterKey))
       => reply' = "error"]_vars

\* C4: an unlock attempt with an unknown username or a wrong password returns
\* invalid credentials and changes neither the key, the store, the timer, the
\* selected vault path, the handlers in flight nor any file on disk.
C4_FailedUnlockChangesNothing ==
  [][\A username \in Usernames, password \in Passwords :
       (~validateUser(username, password) /\ ValidateUser(username, password))
         => (/\ reply' = "invalid"
             /\ UNCHANGED <<masterKey, encryptedDbPath, memoryDb, autoLockTimeout,
                            slot, vu, saltFile, files>>)]_vars

\* an attempt was refused while the session was locked, no timer armed, and the
\* vault of the account on disk
C4_Witness ==
  /\ reply = "invalid"
  /\ ~isUnlocked /\ ~memoryDb.open
  /\ autoLockTimeout = "null"
  /\ files[UserPath].state = "complete"

\* C5 (as claimed): after a crash the vault file is a complete blob, the old
\* one or the new one, never a partial one.
C5_SaveIsAtomic ==
  (reply = NoReply /\ Quiescent) => \A path \in Paths : files[path].state # "partial"

\* C6 (as claimed): a save-then-purge handler clears the key only after its own
\* save has ended, and no save that still needs the key finds it cleared.
C6_KeyHeldWhileSavePending ==
  \A p \in Procs : slot[p].pc = "exported" => isUnlocked

\* C7: when the save of a lock, logout or auto-lock fails, the handler still
\* ends with the master key purged and the working store closed, the failure
\* is in the log, and a handler in flight always has a next step to take.
C7_LockProceedsWhenSaveFails ==
  /\ [][\A p \in Procs :
          (slot[p].pc = "close" /\ slot[p].failed /\ slot'[p].pc = "idle" /\ reply' # NoReply)
            => (/\ masterKey' = NoKey
                /\ ~memoryDb'.open
                /\ SaveFailureLine \in log')]_vars
  /\ [](\A p \in Procs :
          slot[p].pc # "idle" => ENABLED (SaveEncrypt(p) \/ SaveWritten(p) \/ Purge(p)))

\* a lock whose write failed has completed: locked, store closed, failure logged
C7_Witness ==
  /\ reply = "purged"
  /\ SaveFailureLine \in log
  /\ ~isUnlocked /\ ~memoryDb.open
  /\ files[UserPath].state = "partial"

\* C8 (as claimed): the blob a lock has written holds the store the lock is
\* about to discard, so no acknowledged mutation is missing from it.
C8_SavedBlobHoldsAckedMutations ==
  \A p \in Procs :
    (slot[p].pc = "close" /\ slot[p].saved /\ memoryDb.open)
      => slot[p].buf.passwords = exportPasswordsToTempDb(memoryDb)

\* C9 (as claimed): add never returns an id it has returned before for the
\* vault, whether the earlier entry was deleted or not.
C9_IdsNeverReused == ~reused

\* C10 (as claimed): the vault round trip gives back the store: the same
\* entries with the same value in every column, and the same favicon cache.
C10_VaultRoundTrip ==
  [][VaultRoundTrip
       => (memoryDb'.passwords = memoryDb.passwords /\ memoryDb'.favicons = memoryDb.favicons)]_vars

\* what the claim expects of a legacy row: the columns it has, and the safe
\* default in each column it lacks
WithDefaults(r) ==
  [c \in Columns |-> IF c \in DOMAIN r THEN r[c]
                     ELSE IF c = "is_favorited" THEN 0 ELSE NULL]

\* C11 (as claimed): loading a vault blob of an older format, whose passwords
\* table lacks the favorites flag or the per-entry favicon, gives a store with
\* every entry of the blob, the missing field at its default.
C11_LegacyVaultLoads ==
  [][\A columns \in LegacyColumnSets :
       LoadLegacyVault(columns)
         => memoryDb'.passwords =
              {WithDefaults(r) : r \in LegacyBuffer(columns, masterKey).passwords}]_vars

\* the properties of an entry a caller may leave out of an update
OptionalFields == {"url", "group", "notes", "strength", "favicon"}

\* C12 (as claimed): an update of an existing entry succeeds, keeps every
\* field the caller did not supply, replaces the envelope when a new secret
\* was supplied and keeps it otherwise, and touches no other entry.
C12_UpdateChangesOnlySupplied ==
  [][\A id \in Ids, passwordData \in UpdateInputs :
       (/\ isUnlocked /\ memoryDb.open /\ id \in RowIds(memoryDb.passwords)
        /\ UpdatePassword(id, passwordData))
         => /\ reply' = "ok"
            /\ \A r \in memoryDb.passwords : r.id # id => r \in memoryDb'.passwords
            /\ \A r \in memoryDb.passwords, r2 \in memoryDb'.passwords :
                 (r.id = id /\ r2.id = id)
                   => /\ \A f \in OptionalFields : passwordData[f] = "" => r2[f] = r[f]
                      /\ r2.password = IF passwordData.password = undefined THEN r.password
                                       ELSE encryptPassword(passwordData.password, masterKey)]_vars

Contains(text, query) ==
  \E i \in 0..(Len(text) - Len(query)) :
    \A k \in 1..Len(query) : Fold(text[i + k]) = Fold(query[k])

\* C14 (as claimed): a search returns exactly the entries whose service,
\* username or url contains the query as a run of characters, the case of
\* letters ignored and % and _ standing for themselves.
C14_SearchIsLiteralSubstring ==
  [][\A query \in Queries :
       (isUnlocked /\ memoryDb.open /\ SearchPasswords(query))
         => result'.rows =
              {r \in memoryDb.passwords :
                 \/ Contains(Chars(r.service), query)
                 \/ Contains(Chars(r.username), query)
                 \/ Contains(Chars(r.url), query)}]_vars

\* C16 (as claimed): when a logout completes, the master key is absent, the
\* working store is gone, the auto-lock timer is cancelled, and the session
\* no longer selects an account's vault path.
C16_LogoutClearsIdentifiedUser ==
  [][\A p \in Procs :
       (slot[p].kind = "logout" /\ Purge(p))
         => /\ masterKey' = NoKey
            /\ memoryDb' = ClosedDb
            /\ autoLockTimeout' = "null"
            /\ encryptedDbPath' = DefaultPath]_vars

\* the value is what encryptPassword returns under some session key: an iv, a
\* ciphertext and an authentication tag, both made with that key
IsEnvelope(v) ==
  /\ DOMAIN v = {"encrypted", "iv", "authTag"}
  /\ v.iv \in IVs
  /\ v.authTag # NoKey
  /\ v.encrypted[2] = v.authTag

\* every list of entries the program holds or has written: the working store,
\* the list the last request returned, the buffers in flight, the vault files
EntryLists ==
  {memoryDb.passwords, result.rows}
    \cup {slot[p].buf.passwords : p \in Procs}
    \cup {files[path].data.passwords : path \in Paths}

\* C17: in every reachable state the password of every entry of the working
\* store, of a list a get-passwords or search-passwords request returned and
\* of a written vault blob is an envelope (iv, ciphertext, authentication tag)
\* made under a session key, never a plaintext.
C17_SecretsAreEnvelopes ==
  \A rows \in EntryLists : \A r \in rows : IsEnvelope(r.password)

\* an entry is in the store, in the list just returned and in the saved vault
C17_Witness ==
  /\ isUnlocked
  /\ memoryDb.passwords # {}
  /\ result.kind = "rows" /\ result.rows # {}
  /\ \E path \in Paths :
       files[path].state = "complete" /\ files[path].data.passwords # {}

\* the string is well-formed UTF-16: it has no surrogate without its partner
WellFormed(x) == x # LoneSurrogate

C19_WrongKeyIsRejected ==
  [][\A encryptedData \in Envelopes :
       (isUnlocked /\ encryptedData.authTag # masterKey /\ DecryptPassword(encryptedData))
         => (reply' = "error" /\ result' = DecryptFailure)]_vars

\* a reveal has just failed in a session that holds entries
C19_Witness ==
  /\ isUnlocked
  /\ reply = "error"
  /\ result = DecryptFailure
  /\ memoryDb.passwords # {}

\* C20 (as claimed): when the stored hash of a user is malformed (empty, or
\* not a hash string), verifying a candidate password against it yields false,
\* and a validate-user request for that user reports invalid credentials
\* instead of raising.
C20_VerifyFailsClosed ==
  [][\A username \in DOMAIN users, password \in Passwords :
       (argon2VerifyThrows(users[username]) /\ ValidateUser(username, password))
         => (~verifyPassword(users[username], password) /\ reply' = "invalid")]_vars

\* C21 (as claimed): every CredStore request served while a master key is
\* held, decrypt-password included, calls setTimeout anew, so that the timer
\* armed after it runs its whole duration from the time of the request.
C21_EveryRequestResetsTimer ==
  [][(isUnlocked /\ CredStoreRequest)
       => (autoLockTimeout' = "pending" /\ timerSetAt' = now)]_vars

\* C22 (as claimed): in every state without a master key (Locked or
\* LoggedOut) no auto-lock timer is pending.
C22_NoTimerWhileLocked ==
  ~isUnlocked => autoLockTimeout # "pending"

\* C23 (as claimed): the auto-lock callback ends in the session state in which
\* lock-application ends from the same state: the master key purged, the
\* working store cleared, no timer pending, the vault file as the save left it.
\* (A callback that began with a master key held has tried to save.)
C23_AutoLockEndsAsLock ==
  [][\A p \in Procs :
       (slot[p].kind = "auto" /\ (slot[p].saved \/ slot[p].failed) /\ Purge(p))
         => (/\ masterKey' = NoKey
             /\ memoryDb' = ClosedDb
             /\ autoLockTimeout' # "pending"
             /\ files' = files)]_vars

\* the account whose password the key was derived from is the account whose
\* vault path is selected
KeyMatchesPath ==
  \E u \in Registered :
    masterKey.pw = passwordOf(u) /\ encryptedDbPath = PathOf(userIdOf(u))

\* C24 (as claimed): once a second unlock request has been accepted while a
\* first one is in flight, the steps the first one still takes are discarded:
\* they change neither the master key, the selected vault path nor the working
\* store; and when both have completed the key and the path are those of one
\* account.
C24_SupersededUnlockIsDiscarded ==
  /\ [][(/\ vu["v2"].pc # "idle"
         /\ (SetUserId("v1") \/ SetMasterKey("v1") \/ InitMemoryDb("v1") \/ LoadVault("v1")))
          => UNCHANGED <<masterKey, encryptedDbPath, memoryDb>>]_vars
  /\ []((isUnlocked /\ \A h \in Handlers : vu[h].pc = "idle") => KeyMatchesPath)

\* C25 (as claimed): once a salt has been persisted no step writes another
\* one, so the salt file never changes after its creation.
C25_SaltWrittenOnce ==
  [][saltFile # NoSalt => saltFile' = saltFile]_vars

C27_NoSilentLoss ==
  [][\A path \in Paths :
       (files[path].state = "complete" /\ files'[path] # files[path])
         => RowIds(files[path].data.passwords) \subseteq RowIds(files'[path].data.passwords)]_vars

\* a validate-user handler has set the master key and has not finished loading
LoadInProgress == \E h \in Handlers : vu[h].pc \in {"key", "init"}

\* C28 (as claimed): a request that passes the locked check, and a save that
\* exports the store, runs only when the store is initialized and no unlock is
\* between setting the master key and finishing its load.
C28_UnlockedMeansLoaded ==
  [][(/\ isUnlocked
      /\ \/ \E passwordData \in ConcInputs : AddPassword(passwordData)
         \/ \E id \in Ids : DeletePassword(id)
         \/ LockApplication
         \/ LogoutUser
         \/ AutoLockFire)
       => (memoryDb.open /\ ~LoadInProgress)]_vars

\* C29 (as claimed): every toggle-favorite request that completes inverts the
\* is_favorited the entry has at that moment, so that n completed requests on
\* an entry leave its initial value flipped n times, however they interleave.
C29_EachToggleFlips ==
  [][\A t \in Togglers :
       ToggleUpdate(t)
         => \A r \in memoryDb.passwords, r2 \in memoryDb'.passwords :
              (r.id = tg[t].id /\ r2.id = tg[t].id)
                => r2.is_favorited = 1 - r.is_favorited]_vars

\* C30 (as claimed), where the one entry there is belongs to alice's vault and
\* no request adds another: a vault file is encrypted under the key of the
\* account it belongs to, bob's vault file holds no entry, and the store of a
\* session unlocked with bob's password holds no entry.
C30_AccountIsolation ==
  /\ \A u \in Registered :
       files[PathOf(userIdOf(u))].state # "absent"
         => files[PathOf(userIdOf(u))].key.pw = passwordOf(u)
  /\ files[PathOf(userIdOf("bob"))].data.passwords = {}
  /\ (masterKey.pw = passwordOf("bob") /\ vu["v1"].pc = "idle") => memoryDb.passwords = {}

====
